---------------------------- MODULE Spec2Model ----------------------------
(***************************************************************************)
(* The model-selection notebook project_files/model.ipynb as a state       *)
(* machine.  One action per notebook cell (the three cross-validation      *)
(* cells are split into set-up, one loop iteration, and the averaging      *)
(* tail).  A data frame is a sequence of columns; a column is a record     *)
(*   [name, level, ind, dtype, vals, na]                                   *)
(* where vals is the sequence of cell values (integers; category labels    *)
(* are integer codes, as in the notebook's room_type_0), na is the set of  *)
(* row positions whose cell is missing (NaN), ind tells an indicator       *)
(* column produced by get_dummies from column `name` for value `level`.    *)
(* Row positions are 1..n (pandas position p is p-1).                      *)
(***************************************************************************)
EXTENDS Integers, Sequences, FiniteSets, TLC

\* Bounds of the model.
MaxRows == 7
MaxFoldRows == 11
ScoreRange == 13
MaxLevels == 3
MaxEncRows == 5

\* Program constants.
n_splits == 5
n_lambdas == 9
test_pct == 33
grid_cv == 3
rf_n_estimators == 3
rf_max_features == 3
ada_n_estimators == 4
ada_learning_rate == 3
ada_loss == 2

VARIABLES
    pc,             \* the notebook cell that runs next
    listings_csv,   \* listings_clean.csv as read by pd.read_csv
    feature_csv,    \* feature_data.csv as read by pd.read_csv
    X,              \* the feature frame of the loader cell (<<>> before it ran)
    y,              \* the target vector of the loader cell
    X_encoded,      \* the one-hot encoded frame
    lasso_hard,     \* the folds on whose training rows LassoCV misses tol
    fold,           \* how many (train, test) pairs the running loop has consumed
    estimator,      \* the estimator objects linreg, ridge, lasso, rf, rf_tuned, ada, clf
    R2, MAE,        \* the two score lists of the running cross-validation cell
    Y_predict,      \* the notebook-global prediction vector
    scalars,        \* the *_testing_set_score and *_median_abs_error variables
    warnings,       \* the warnings the kernel has printed
    raised,         \* the exception that stopped the run, if any
    shuffle42,      \* the permutation RandomState(42) yields for the row count
    X_train, X_test,\* the hold-out split, as row positions of X_encoded (Y_* alike)
    np_random,      \* the state of numpy's global random generator
    figures,        \* the charts rendered so far
    previous_run,   \* the scalars of the run before a restart of the kernel
    executed        \* the cells run since the kernel started, in order

inputs == <<listings_csv, feature_csv, lasso_hard>>
frames == <<X, y, X_encoded>>
later == <<shuffle42, X_train, X_test, np_random, figures, previous_run>>
vars == <<pc, listings_csv, feature_csv, X, y, X_encoded, lasso_hard, fold,
          estimator, R2, MAE, Y_predict, scalars, warnings, raised, shuffle42,
          X_train, X_test, np_random, figures, previous_run, executed>>

---------------------------------------------------------------------------
(* Generic helpers on sequences and frames *)

Range(s) == {s[i] : i \in DOMAIN s}

RECURSIVE SumSeq(_)
SumSeq(s) == IF s = <<>> THEN 0 ELSE Head(s) + SumSeq(Tail(s))

RECURSIVE SetToSortedSeq(_)
\* the elements of a finite set of integers in ascending order
SetToSortedSeq(S) ==
    IF S = {} THEN <<>>
    ELSE LET m == CHOOSE a \in S : \A b \in S : a <= b
         IN <<m>> \o SetToSortedSeq(S \ {m})

RECURSIVE TupleUpTo(_, _)
\* the first k values of function f as a tuple, each computed once
TupleUpTo(f, k) == IF k = 0 THEN <<>> ELSE Append(TupleUpTo(f, k - 1), f[k])

\* F applied to the value of v, which is computed once
Eager(v, F(_)) == CHOOSE r \in {F(x) : x \in {v}} : TRUE

RECURSIVE FlattenSeq(_)
FlattenSeq(ss) == IF ss = <<>> THEN <<>> ELSE Head(ss) \o FlattenSeq(Tail(ss))

ColNames(df) == [i \in DOMAIN df |-> df[i].name]

HasCol(df, nm) == \E i \in DOMAIN df : df[i].name = nm /\ ~df[i].ind

NRows(df) == IF df = <<>> THEN 0 ELSE Len(df[1].vals)

Col(nm, dt, vs, missing) ==
    [name |-> nm, level |-> 0, ind |-> FALSE, dtype |-> dt, vals |-> vs, na |-> missing]

---------------------------------------------------------------------------
(* Cell "Read in the data" *)

\* df.iloc[:, 1:] : every column but the first
ILocDropFirst(df) == IF df = <<>> THEN <<>> ELSE Tail(df)

\* df.iloc[:, 0:-1] : every column but the last
ILocDropLast(df) == IF df = <<>> THEN <<>> ELSE SubSeq(df, 1, Len(df) - 1)

\* df.drop(nm, 1) : the frame without column nm (KeyError when nm is no column)
DropCol(df, nm) == SelectSeq(df, LAMBDA c : c.name # nm)

\* (mutant) the column is appended as it is, whatever its length
ReindexNone(c, n) == c

\* A column of `features` aligned to the n rows of X (join_axes = [X.index]):
\* rows the features table lacks become NaN, and pandas upcasts the dtype
\* of a column that receives NaN (int64 -> float64, bool -> object).
Reindex(c, n) ==
    LET m == Len(c.vals)
        gap == {i \in 1..n : i > m}
    IN [c EXCEPT !.vals = [i \in 1..n |-> IF i <= m THEN c.vals[i] ELSE 0],
                 !.na = (c.na \cap (1..n)) \cup gap,
                 !.dtype = IF gap = {} THEN c.dtype
                           ELSE IF c.dtype = "int64" THEN "float64"
                           ELSE IF c.dtype = "bool" THEN "object"
                           ELSE c.dtype]

\* pd.concat([X, features], axis=1, join_axes=[X.index])
ConcatOnIndex(left, right) ==
    left \o [i \in DOMAIN right |-> Reindex(right[i], NRows(left))]

\* X['on_park'] = X['on_park'].astype(float)
AsTypeFloat(df, nm) ==
    [i \in DOMAIN df |-> IF df[i].name = nm THEN [df[i] EXCEPT !.dtype = "float64"]
                         ELSE df[i]]

\* np.log of one price: ln p for p > 0, -inf for 0 and NaN below 0 (numpy
\* warns and returns; it does not raise).  ln is kept symbolic: [k, of].
NpLog(p) == IF p > 0 THEN [k |-> "ln", of |-> p]
            ELSE IF p = 0 THEN [k |-> "neginf", of |-> 0]
            ELSE [k |-> "nan", of |-> 0]

ColumnOf(df, nm) == df[CHOOSE i \in DOMAIN df : df[i].name = nm]

Raise(cell, exc) ==
    /\ pc' = "aborted"
    /\ raised' = [cell |-> cell, exc |-> exc]

\* listings and features as read: pd.read_csv(...).iloc[:, 1:]
ReadListings(lcsv) == ILocDropFirst(lcsv)
ReadFeatures(fcsv) == ILocDropFirst(fcsv)

\* X after each assignment of the cell
X_sliced(lcsv) == ILocDropLast(ReadListings(lcsv))
X_noid(lcsv) == DropCol(X_sliced(lcsv), "id")
X_joined(lcsv, fcsv) == ConcatOnIndex(X_noid(lcsv), DropCol(ReadFeatures(fcsv), "id"))
LoaderX(lcsv, fcsv) == AsTypeFloat(X_joined(lcsv, fcsv), "on_park")

\* y = np.log(listings['price'])
LoaderY(lcsv) ==
    LET price == ColumnOf(ReadListings(lcsv), "price")
    IN [i \in DOMAIN price.vals |->
            IF i \in price.na THEN [k |-> "nan", of |-> 0] ELSE NpLog(price.vals[i])]

\* The cell raises KeyError at the first statement that names an absent
\* column; the assignments before it have taken effect.  Nothing else in
\* the cell raises: np.log warns on a non-positive price, and the join
\* aligns a features table of another length to X.index.
ReadData ==
    /\ pc = "read"
    /\ IF ~HasCol(ReadFeatures(feature_csv), "id")
       THEN Raise("read", "KeyError") /\ UNCHANGED <<X, y>>
       ELSE IF ~HasCol(X_sliced(listings_csv), "id")
       THEN Raise("read", "KeyError") /\ X' = X_sliced(listings_csv) /\ UNCHANGED y
       ELSE IF ~HasCol(X_joined(listings_csv, feature_csv), "on_park")
       THEN Raise("read", "KeyError") /\ X' = X_joined(listings_csv, feature_csv)
            /\ UNCHANGED y
       ELSE IF ~HasCol(ReadListings(listings_csv), "price")
       THEN Raise("read", "KeyError") /\ X' = LoaderX(listings_csv, feature_csv)
            /\ UNCHANGED y
       ELSE /\ pc' = "encode"
            /\ X' = LoaderX(listings_csv, feature_csv)
            /\ y' = LoaderY(listings_csv)
            /\ UNCHANGED raised
    /\ executed' = Append(executed, "read")
    /\ UNCHANGED <<inputs, X_encoded, fold, estimator, R2, MAE, Y_predict, scalars, warnings,
                   later>>

---------------------------------------------------------------------------
(* Cell "Apply one hot encoding" *)

\* (mutant) the mask compares with another floating-point dtype
IsCategoricalFloat32(c) == c.dtype # "float32"

\* categorical_names: the columns whose dtype is not float64, in column order
IsCategorical(c) == c.dtype # "float64"

categorical_names(df) == ColNames(SelectSeq(df, IsCategorical))

\* (mutant) the values are collected from the second row on
LevelsFromSecondRow(c) == {c.vals[i] : i \in ((DOMAIN c.vals) \ c.na) \ {1}}

\* the distinct observed (non-missing) values of a column
Levels(c) == {c.vals[i] : i \in (DOMAIN c.vals) \ c.na}

\* the indicator column of column c for value v: 1 where the cell holds v,
\* 0 elsewhere, also where the cell is missing (dummy_na is left False)
Indicator(c, v) ==
    [name |-> c.name, level |-> v, ind |-> TRUE, dtype |-> "uint8",
     vals |-> [i \in DOMAIN c.vals |-> IF i \notin c.na /\ c.vals[i] = v THEN 1 ELSE 0],
     na |-> {}]

\* (mutant) drop_first: the indicator of the smallest value is left out
DummiesDropFirst(c) ==
    LET lv == SetToSortedSeq(Levels(c))
    IN IF lv = <<>> THEN <<>> ELSE [j \in DOMAIN Tail(lv) |-> Indicator(c, Tail(lv)[j])]

\* the indicator columns of c, one per observed value, in ascending value order
Dummies(c) ==
    LET lv == SetToSortedSeq(Levels(c))
    IN [j \in DOMAIN lv |-> Indicator(c, lv[j])]

\* pd.get_dummies(df, prefix = names, columns = names): the columns not named
\* keep their place in front, the indicator groups follow in the order of names
GetDummies(df, names) ==
    LET named(c) == \E j \in DOMAIN names : names[j] = c.name
        rest == SelectSeq(df, LAMBDA c : ~named(c))
        enc == SelectSeq(df, named)
    IN rest \o FlattenSeq([j \in DOMAIN enc |-> Dummies(enc[j])])

OneHot ==
    /\ pc = "encode"
    /\ X_encoded' = GetDummies(X, categorical_names(X))
    /\ pc' = "ols"
    /\ executed' = Append(executed, "encode")
    /\ UNCHANGED <<inputs, X, y, fold, estimator, R2, MAE, Y_predict, scalars, warnings, raised,
                   later>>

---------------------------------------------------------------------------
(* Estimators and metrics.  The solvers are library code; an estimator     *)
(* object is represented by what it was fit on and with: the training rows *)
(* of its final fit, the regularisation strength its internal search       *)
(* picked (an index into lambdas), whether the solver stopped short of its *)
(* tolerance, the random draw it consumed and its hyper-parameters.  R^2   *)
(* and the median absolute error are fixed deterministic functions of      *)
(* exactly the arguments the notebook passes, with values 0..ScoreRange-1. *)

Unfitted(kind) ==
    [kind |-> kind, fitted |-> FALSE, rows |-> <<>>, alpha |-> 0,
     degenerate |-> FALSE, rnd |-> 0, params |-> 0, search |-> <<>>]

NoPrediction == [est |-> Unfitted("none"), rows |-> <<>>]

\* no NaN among the cells of the given rows / no NaN or infinity in y
XFinite(df, rows) == \A c \in DOMAIN df : \A j \in DOMAIN rows : rows[j] \notin df[c].na
YFinite(yy, rows) == \A j \in DOMAIN rows : yy[rows[j]].k = "ln"

RowCode(df, yy, i) == SumSeq([c \in DOMAIN df |-> df[c].vals[i]]) + yy[i].of
DataCode(df, yy, rows) == SumSeq([j \in DOMAIN rows |-> RowCode(df, yy, rows[j])])

KindCode(kind) ==
    CASE kind = "ols" -> 1 [] kind = "ridge" -> 2 [] kind = "lasso" -> 3
      [] kind = "rf" -> 4 [] kind = "ada" -> 5 [] OTHER -> 0

FitCode(df, yy, est) ==
    KindCode(est.kind) + 3 * DataCode(df, yy, est.rows) + 5 * est.alpha
        + 7 * est.rnd + est.params + (IF est.degenerate THEN 11 ELSE 0)

\* est.predict(X.iloc[rows])
Predict(est, rows) == [est |-> est, rows |-> rows]

\* est.score(X.iloc[rows], y.iloc[rows])
RSquared(df, yy, est, rows) ==
    (FitCode(df, yy, est) + DataCode(df, yy, rows)) % ScoreRange

\* median_absolute_error(y.iloc[rows], pred)
median_absolute_error(df, yy, rows, pred) ==
    (2 * FitCode(df, yy, pred.est) + DataCode(df, yy, pred.rows)
        + SumSeq([j \in DOMAIN rows |-> yy[rows[j]].of]) + 1) % ScoreRange

\* np.mean of a list, kept as the exact fraction num / den
NpMean(list) == [set |-> TRUE, num |-> SumSeq(list), den |-> Len(list)]

Single(v) == [set |-> TRUE, num |-> v, den |-> 1]

Unset == [set |-> FALSE, num |-> 0, den |-> 1]

---------------------------------------------------------------------------
(* KFold(n_splits = k) without shuffling, as cv.split yields it *)

\* (mutant) every fold gets n // k rows: the n % k rows left over are in no fold
FoldSizeNoRemainder(n, k, i) == n \div k

\* the size of fold i (1..k): n // k, one more for the first n % k folds
FoldSize(n, k, i) == (n \div k) + (IF i <= n % k THEN 1 ELSE 0)

FoldStart(n, k, i) == SumSeq([j \in 1..(i - 1) |-> FoldSize(n, k, j)])

\* the test positions of fold i, and the train positions: all others, ascending
KFoldTest(n, k, i) ==
    [j \in 1..FoldSize(n, k, i) |-> FoldStart(n, k, i) + j]

\* (mutant) the estimator is fit on every row, the fold's test rows included
KFoldTrainAllRows(n, k, i) == [j \in 1..n |-> j]

KFoldTrain(n, k, i) ==
    LET test == Range(KFoldTest(n, k, i))
    IN SelectSeq([j \in 1..n |-> j], LAMBDA r : r \notin test)

KFoldSplit(n, k) ==
    [i \in 1..k |-> [train |-> KFoldTrain(n, k, i), test |-> KFoldTest(n, k, i)]]

\* split raises ValueError when there are more splits than samples
KFoldRaises(n, k) == k > n

\* the k internal (train, test) pairs an estimator with cv = k draws on `rows`
InternalSplits(rows, k) ==
    LET at(pos) == [j \in DOMAIN pos |-> rows[pos[j]]]
    IN TupleUpTo([i \in 1..k |-> [train |-> at(KFoldTrain(Len(rows), k, i)),
                                   test |-> at(KFoldTest(Len(rows), k, i))]], k)

\* the regularisation strength the internal search picks: an index 1..n_lambdas
BestAlpha(df, yy, rows, k) ==
    Eager(InternalSplits(rows, k),
          LAMBDA sp : 1 + (SumSeq([i \in 1..k |-> DataCode(df, yy, sp[i].train)
                                                   + 2 * DataCode(df, yy, sp[i].test)])
                           % n_lambdas))

---------------------------------------------------------------------------
(* Cells "Ordinary Least Squares", "Ridge Regression", "LASSO" *)

Models == {"ols", "ridge", "lasso"}

ObjectOf(m) == CASE m = "ols" -> "linreg" [] m = "ridge" -> "ridge" [] OTHER -> "lasso"
ScoreVar(m) == CASE m = "ols" -> "lin_testing_set_score"
                 [] m = "ridge" -> "ridge_testing_set_score"
                 [] OTHER -> "lasso_testing_set_score"
ErrorVar(m) == CASE m = "ols" -> "lin_median_abs_error"
                 [] m = "ridge" -> "ridge_median_abs_error"
                 [] OTHER -> "lasso_median_abs_error"
CellAfter(m) == CASE m = "ols" -> "ridge" [] m = "ridge" -> "lasso" [] OTHER -> "split"

\* m.fit(X_encoded.iloc[train], y.iloc[train]) raises ValueError on NaN or
\* infinity, and RidgeCV / LassoCV with cv = 5 on fewer than 5 training rows
FitRaises(m, df, yy, train) ==
    \/ ~XFinite(df, train)
    \/ ~YFinite(yy, train)
    \/ (m # "ols" /\ KFoldRaises(Len(train), n_splits))

\* the estimator after m.fit on the training rows; hard: the solver of
\* LassoCV ends at its iteration cap short of tol (ConvergenceWarning)
FitBaseline(m, df, yy, train, hard) ==
    [kind |-> m, fitted |-> TRUE, rows |-> train,
     alpha |-> IF m = "ols" THEN 0 ELSE BestAlpha(df, yy, train, n_splits),
     degenerate |-> (m = "lasso" /\ hard), rnd |-> 0, params |-> 0, search |-> <<>>]

\* (mutant) the lists of the cell before are appended to
ResetListsKept(r2, mae) == [r2 |-> r2, mae |-> mae]

\* MAE = [] ; R2 = [] at the head of a cross-validation cell
ResetLists(r2, mae) == [r2 |-> <<>>, mae |-> <<>>]

\* cv = KFold(n_splits = 5); the estimator is constructed; MAE = []; R2 = []
CVSetup(m) ==
    /\ pc = m
    /\ estimator' = [estimator EXCEPT ![ObjectOf(m)] = Unfitted(m)]
    /\ R2' = ResetLists(R2, MAE).r2
    /\ MAE' = ResetLists(R2, MAE).mae
    /\ fold' = 0
    /\ pc' = m \o "_loop"
    /\ executed' = Append(executed, m)
    /\ UNCHANGED <<inputs, frames, Y_predict, scalars, warnings, raised, later>>

\* one iteration of  for train, test in cv.split(X_encoded)
CVFold(m) ==
    /\ pc = m \o "_loop"
    /\ fold < n_splits
    /\ LET n == NRows(X_encoded)
       IN IF KFoldRaises(n, n_splits)
          THEN /\ Raise(m, "ValueError")
               /\ UNCHANGED <<fold, estimator, R2, MAE, Y_predict, warnings>>
          ELSE \E sp \in {KFoldSplit(n, n_splits)[fold + 1]} :
               IF FitRaises(m, X_encoded, y, sp.train)
               THEN /\ Raise(m, "ValueError")
                    /\ UNCHANGED <<fold, estimator, R2, MAE, Y_predict, warnings>>
               ELSE \E est \in {FitBaseline(m, X_encoded, y, sp.train,
                                            (fold + 1) \in lasso_hard)} :
                  LET pred == Predict(est, sp.test)
                  IN IF ~XFinite(X_encoded, sp.test) \/ ~YFinite(y, sp.test)
                  THEN \* predict / score raise; the fit has happened
                       /\ Raise(m, "ValueError")
                       /\ estimator' = [estimator EXCEPT ![ObjectOf(m)] = est]
                       /\ UNCHANGED <<fold, R2, MAE, Y_predict, warnings>>
                  ELSE /\ estimator' = [estimator EXCEPT ![ObjectOf(m)] = est]
                       /\ Y_predict' = pred
                       /\ R2' = Append(R2, RSquared(X_encoded, y, est, sp.test))
                       /\ MAE' = Append(MAE, median_absolute_error(X_encoded, y, sp.test, pred))
                       /\ warnings' = IF est.degenerate
                                      THEN warnings \cup {"ConvergenceWarning"}
                                      ELSE warnings
                       /\ fold' = fold + 1
                       /\ UNCHANGED <<pc, raised>>
    /\ UNCHANGED <<inputs, frames, scalars, later, executed>>

\* the loop is exhausted: the two means are stored
CVMean(m) ==
    /\ pc = m \o "_loop"
    /\ fold = n_splits
    /\ scalars' = [scalars EXCEPT ![ScoreVar(m)] = NpMean(R2),
                                  ![ErrorVar(m)] = NpMean(MAE)]
    /\ pc' = CellAfter(m)
    /\ UNCHANGED <<inputs, frames, fold, estimator, R2, MAE, Y_predict, warnings, raised,
                   later, executed>>

OLSSetup == CVSetup("ols")
OLSFold == CVFold("ols")
OLSMean == CVMean("ols")
RidgeSetup == CVSetup("ridge")
RidgeFold == CVFold("ridge")
RidgeMean == CVMean("ridge")
LassoSetup == CVSetup("lasso")
LassoFold == CVFold("lasso")
LassoMean == CVMean("lasso")

Baseline == \/ OLSSetup \/ OLSFold \/ OLSMean
            \/ RidgeSetup \/ RidgeFold \/ RidgeMean
            \/ LassoSetup \/ LassoFold \/ LassoMean

---------------------------------------------------------------------------
(* Cell "Split into train and test" *)

\* the rows train_test_split puts in the test subset: ceil(test_size * n)
\* with test_size = 0.33 (test_pct hundredths); the rest is the train subset
NTest(n) == (test_pct * n + 99) \div 100

RECURSIVE InBlocks(_, _)
\* every way to list the set S in consecutive blocks of the given sizes,
\* each block ascending
InBlocks(S, sizes) ==
    IF sizes = <<>> THEN {<<>>}
    ELSE UNION {{SetToSortedSeq(B) \o rest : rest \in InBlocks(S \ B, Tail(sizes))} :
                B \in {B \in SUBSET S : Cardinality(B) = Head(sizes)}}

\* The permutations of 1..n that RandomState(42) may yield.  The seed fixes
\* one per n; which one is not known here, so the split takes any.  The
\* notebook uses the test block (the first NTest(n) places) and the three
\* blocks GridSearchCV cuts the train block into only as a whole, so the
\* rows inside each of these blocks are listed ascending.
Shuffles(n) ==
    InBlocks(1..n, <<NTest(n)>> \o [f \in 1..grid_cv |-> FoldSize(n - NTest(n), grid_cv, f)])

\* ShuffleSplit: test = permutation[:n_test], train = permutation[n_test:]
SplitTest(p) == SubSeq(p, 1, NTest(Len(p)))

\* (mutant) the train slice starts one place early
SplitTrainFromLastTest(p) == SubSeq(p, NTest(Len(p)), Len(p))

SplitTrain(p) == SubSeq(p, NTest(Len(p)) + 1, Len(p))

HoldOutSplit ==
    /\ pc = "split"
    /\ \E p \in Shuffles(NRows(X_encoded)) :
          /\ shuffle42 \in {<<>>, p}
          /\ shuffle42' = p
          /\ X_train' = SplitTrain(p)
          /\ X_test' = SplitTest(p)
    /\ pc' = "rf"
    /\ executed' = Append(executed, "split")
    /\ UNCHANGED <<inputs, frames, fold, estimator, R2, MAE, Y_predict, scalars,
                   warnings, raised, np_random, figures, previous_run>>

---------------------------------------------------------------------------
(* Cells "Random Forest Regressor", "Tuned RF Regressor", "AdaBoost         *)
(* Regressor", "Tuned AdaBoost Regressor".  None of the estimators is      *)
(* given a random_state, so each fit draws from numpy's global generator   *)
(* np_random, which the kernel seeds from the operating system.            *)

\* an ensemble estimator fit on `rows` with hyper-parameters `params`,
\* drawing its randomness at generator state `rnd`
FitEnsemble(kind, rows, params, rnd) ==
    [kind |-> kind, fitted |-> TRUE, rows |-> rows, alpha |-> 0,
     degenerate |-> FALSE, rnd |-> rnd, params |-> params, search |-> <<>>]

\* the number of points of ParameterGrid(grid): the product of the list lengths
RECURSIVE GridPoints(_)
GridPoints(sizes) == IF sizes = <<>> THEN 1 ELSE Head(sizes) * GridPoints(Tail(sizes))

\* tuned_parameters of the two grid-search cells, as the lengths of the lists
rf_grid == <<rf_n_estimators, 1, 1, rf_max_features>>
ada_grid == <<ada_n_estimators, ada_learning_rate, ada_loss>>

\* mean_test_score of grid point g: the internal folds' scores, weighted by
\* the size of each fold's test block (iid), as the fraction num / den
GridPointScore(df, yy, kind, sp, g, seed) ==
    LET sc(f) == Eager(FitEnsemble(kind, sp[f].train, g, seed + (g - 1) * grid_cv + (f - 1)),
                       LAMBDA est : RSquared(df, yy, est, sp[f].test))
    IN [num |-> SumSeq([f \in 1..grid_cv |-> Len(sp[f].test) * sc(f)]),
        den |-> SumSeq([f \in 1..grid_cv |-> Len(sp[f].test)])]

\* (mutant) argmin where argmax is meant: the first grid point with the
\* lowest mean score
BestIndexLowest(means) ==
    CHOOSE g \in DOMAIN means :
        /\ \A h \in DOMAIN means : means[g].num * means[h].den <= means[h].num * means[g].den
        /\ \A h \in 1..(g - 1) : means[g].num * means[h].den < means[h].num * means[g].den

\* best_index_: the first grid point whose mean score no other exceeds
BestIndex(means) ==
    CHOOSE g \in DOMAIN means :
        /\ \A h \in DOMAIN means : means[h].num * means[g].den <= means[g].num * means[h].den
        /\ \A h \in 1..(g - 1) : means[h].num * means[g].den < means[g].num * means[h].den

\* GridSearchCV(est, cv = 3, param_grid = grid).fit(rows): every grid point
\* is scored on every internal fold, then the best one is refit on all rows
GridSearchFit(df, yy, kind, grid, rows, seed) ==
    LET G == GridPoints(grid)
    IN Eager(InternalSplits(rows, grid_cv), LAMBDA sp :
       Eager(TupleUpTo([g \in 1..G |-> GridPointScore(df, yy, kind, sp, g, seed)], G),
             LAMBDA means :
                [FitEnsemble(kind, rows, BestIndex(means), seed + G * grid_cv)
                    EXCEPT !.search = means]))

\* the generator state after n fits
Advance(seed, n) == seed + n

Ensembles == {"rf", "rf_tuned", "ada", "clf"}

EnsScoreVar(o) == CASE o = "rf" -> "rf_testing_set_score"
                    [] o = "rf_tuned" -> "rft_testing_set_score"
                    [] o = "ada" -> "ada_testing_set_score"
                    [] OTHER -> "clf_testing_set_score"
EnsErrorVar(o) == CASE o = "rf" -> "rf_median_abs_error"
                    [] o = "rf_tuned" -> "rft_median_abs_error"
                    [] o = "ada" -> "ada_median_abs_error"
                    [] OTHER -> "clf_median_abs_error"
EnsCellAfter(o) == CASE o = "rf" -> "rf_tuned" [] o = "rf_tuned" -> "ada"
                     [] o = "ada" -> "clf" [] OTHER -> "r2_chart"

\* (mutant) Y_predict is not assigned anew: the cell scores the prediction
\* the cell before left
HoldOutPredictionStale(est, stale) == stale

\* Y_predict = o.predict(X_test): every ensemble cell assigns it anew
HoldOutPrediction(est, stale) == Predict(est, X_test)

\* the tail every ensemble cell shares: the estimator is kept, Y_predict and
\* the two scores of o on (X_test, Y_test) are assigned
ScoreOnHoldOut(o, fit) ==
    \E est \in {fit} :
    LET pred == HoldOutPrediction(est, Y_predict)
    IN /\ estimator' = [estimator EXCEPT ![o] = est]
       /\ Y_predict' = pred
       /\ scalars' = [scalars EXCEPT
              ![EnsScoreVar(o)] = Single(RSquared(X_encoded, y, est, X_test)),
              ![EnsErrorVar(o)] = Single(median_absolute_error(X_encoded, y, X_test, pred))]
       /\ pc' = EnsCellAfter(o)
       /\ executed' = Append(executed, o)
       /\ UNCHANGED <<inputs, frames, fold, R2, MAE, warnings, raised, shuffle42,
                      X_train, X_test, figures, previous_run>>

\* rf = RandomForestRegressor(oob_score = True); rf.fit(X_train, Y_train)
RandomForest ==
    /\ pc = "rf"
    /\ np_random' = Advance(np_random, 1)
    /\ ScoreOnHoldOut("rf", FitEnsemble("rf", X_train, 0, np_random))

\* rf_tuned = GridSearchCV(RandomForestRegressor(), cv = 3, ...); fit; score
TunedRandomForest ==
    /\ pc = "rf_tuned"
    /\ np_random' = Advance(np_random, GridPoints(rf_grid) * grid_cv + 1)
    /\ ScoreOnHoldOut("rf_tuned",
                      GridSearchFit(X_encoded, y, "rf", rf_grid, X_train, np_random))

\* ada = AdaBoostRegressor(base_estimator = rf): fit clones rf's parameters
\* into fresh, unfitted forests; the fitted state of rf is not used
AdaBoost ==
    /\ pc = "ada"
    /\ np_random' = Advance(np_random, 1)
    /\ ScoreOnHoldOut("ada",
                      FitEnsemble("ada", X_train, 1 + estimator["rf"].params, np_random))

\* clf = GridSearchCV(AdaBoostRegressor(), cv = 3, ...); fit; score
TunedAdaBoost ==
    /\ pc = "clf"
    /\ np_random' = Advance(np_random, GridPoints(ada_grid) * grid_cv + 1)
    /\ ScoreOnHoldOut("clf",
                      GridSearchFit(X_encoded, y, "ada", ada_grid, X_train, np_random))

Ensemble == RandomForest \/ TunedRandomForest \/ AdaBoost \/ TunedAdaBoost

---------------------------------------------------------------------------
(* Cells "R^2 Chart", "Median Absolute Error Chart", "Variable Importance" *)

labels == <<"OLS", "Ridge Tuned", "Lasso Tuned", "RF", "Tuned (RF)", "AB (RF)", "AB (DT)">>

R2Vars == <<"lin_testing_set_score", "ridge_testing_set_score", "lasso_testing_set_score",
            "rf_testing_set_score", "rft_testing_set_score", "ada_testing_set_score",
            "clf_testing_set_score">>

ErrVars == <<"lin_median_abs_error", "ridge_median_abs_error", "lasso_median_abs_error",
             "rf_median_abs_error", "rft_median_abs_error", "ada_median_abs_error",
             "clf_median_abs_error">>

\* a < b for two fractions with positive denominators
FracLess(a, b) == a.num * b.den < b.num * a.den

\* np.argsort of a short array: ascending, equal values in their given order
ArgSortOf(vals) ==
    LET before(i, j) == FracLess(vals[i], vals[j]) \/ (~FracLess(vals[j], vals[i]) /\ i < j)
        rank(i) == 1 + Cardinality({j \in DOMAIN vals : before(j, i)})
    IN TupleUpTo([r \in DOMAIN vals |-> CHOOSE i \in DOMAIN vals : rank(i) = r], Len(vals))

ArgSort(array) == Eager(array, ArgSortOf)

\* (mutant) the tick labels are not permuted along with the values
BarChartLabelsUnsorted(title, names) ==
    LET error_val == TupleUpTo([i \in DOMAIN names |-> scalars[names[i]]], Len(names))
    IN Eager(ArgSort(error_val), LAMBDA srt :
          [title |-> title,
           bars |-> [r \in DOMAIN srt |->
                       [label |-> labels[r], value |-> error_val[srt[r]]]]])

\* plt.bar(pos, error_val[srt]); plt.xticks(pos, labels[srt])
BarChart(title, names) ==
    LET error_val == TupleUpTo([i \in DOMAIN names |-> scalars[names[i]]], Len(names))
    IN Eager(ArgSort(error_val), LAMBDA srt :
          [title |-> title,
           bars |-> [r \in DOMAIN srt |->
                       [label |-> labels[srt[r]], value |-> error_val[srt[r]]]]])

\* a cell that reads a name no cell has bound raises NameError
Unbound(names) == \E i \in DOMAIN names : ~scalars[names[i]].set

ChartCell(cell, title, names, after) ==
    /\ pc = cell
    /\ IF Unbound(names)
       THEN Raise(cell, "NameError") /\ UNCHANGED figures
       ELSE /\ figures' = Append(figures, BarChart(title, names))
            /\ pc' = after
            /\ UNCHANGED raised
    /\ executed' = Append(executed, cell)
    /\ UNCHANGED <<inputs, frames, fold, estimator, R2, MAE, Y_predict, scalars, warnings,
                   shuffle42, X_train, X_test, np_random, previous_run>>

R2Chart == ChartCell("r2_chart", "R2 Model Comparison", R2Vars, "mae_chart")

MAEChart == ChartCell("mae_chart", "Median Absolute Error Model Comparison", ErrVars,
                      "importance")

\* feature_importances_ of rf_tuned.best_estimator_, one per column of X_train
FeatureImportance(fit, df, c) ==
    1 + ((fit + c * SumSeq(df[c].vals)) % ScoreRange)

\* 100.0 * (importance / importance.max()), sorted ascending, labelled with the
\* column names
ImportanceChart ==
    /\ pc = "importance"
    /\ \E fit \in {FitCode(X_encoded, y, estimator["rf_tuned"])} :
       \E imp \in {TupleUpTo([c \in DOMAIN X_encoded |-> FeatureImportance(fit, X_encoded, c)],
                             Len(X_encoded))} :
       \E top \in {m \in Range(imp) : \A v \in Range(imp) : v <= m} :
       \E predictor_importance \in
              {TupleUpTo([c \in DOMAIN imp |-> [num |-> 100 * imp[c], den |-> top]], Len(imp))} :
       \E index \in {ArgSort(predictor_importance)} :
          figures' = Append(figures,
              [title |-> "Predictor Importance",
               bars |-> [r \in DOMAIN index |->
                           [label |-> <<X_encoded[index[r]].name, X_encoded[index[r]].level>>,
                            value |-> predictor_importance[index[r]]]]])
    /\ pc' = "done"
    /\ executed' = Append(executed, "importance")
    /\ UNCHANGED <<inputs, frames, fold, estimator, R2, MAE, Y_predict, scalars, warnings,
                   raised, shuffle42, X_train, X_test, np_random, previous_run>>

Report == R2Chart \/ MAEChart \/ ImportanceChart

---------------------------------------------------------------------------
(* Input files *)

\* listings_clean.csv with n rows: a leading index column, id, then the
\* feature columns and price.  layout tells where price stands:
\*   "last"   : id, room_type, beds, price     "inner" : id, price, room_type, beds
\*   "absent" : id, room_type, beds (no price column)
ListingsFile(n, layout, roomDtype, roomVals, roomNa, bedsDtype, prices) ==
    LET idx == Col("Unnamed: 0", "int64", [i \in 1..n |-> i - 1], {})
        id == Col("id", "int64", [i \in 1..n |-> 100 + i], {})
        room == Col("room_type", roomDtype, roomVals, roomNa)
        beds == Col("beds", bedsDtype, [i \in 1..n |-> 1 + (i % 2)], {})
        price == Col("price", "float64", prices, {})
    IN CASE layout = "last" -> <<idx, id, room, beds, price>>
         [] layout = "inner" -> <<idx, id, price, room, beds>>
         [] OTHER -> <<idx, id, room, beds>>

\* feature_data.csv with m rows: index column, id, on_park (bool), dist_to_subway
FeatureFile(m, withPark) ==
    LET idx == Col("Unnamed: 0", "int64", [i \in 1..m |-> i - 1], {})
        id == Col("id", "int64", [i \in 1..m |-> 100 + i], {})
        park == Col("on_park", "bool", [i \in 1..m |-> i % 2], {})
        dist == Col("dist_to_subway", "float64", [i \in 1..m |-> i], {})
    IN IF withPark THEN <<idx, id, park, dist>> ELSE <<idx, id, dist>>

Objects == {"linreg", "ridge", "lasso", "rf", "rf_tuned", "ada", "clf"}

ScalarNames ==
    {"lin_testing_set_score", "ridge_testing_set_score", "lasso_testing_set_score",
     "rf_testing_set_score", "rft_testing_set_score", "ada_testing_set_score",
     "clf_testing_set_score",
     "lin_median_abs_error", "ridge_median_abs_error", "lasso_median_abs_error",
     "rf_median_abs_error", "rft_median_abs_error", "ada_median_abs_error",
     "clf_median_abs_error"}

\* the seeds the operating system may hand numpy's global generator
EntropySeeds == {0, 1}

\* a fresh kernel: nothing is bound yet, the generator is seeded from entropy
FreshKernel ==
    /\ X = <<>>
    /\ y = <<>>
    /\ X_encoded = <<>>
    /\ fold = 0
    /\ estimator = [o \in Objects |-> Unfitted("none")]
    /\ R2 = <<>>
    /\ MAE = <<>>
    /\ Y_predict = NoPrediction
    /\ scalars = [v \in ScalarNames |-> Unset]
    /\ warnings = {}
    /\ raised = [cell |-> "", exc |-> ""]
    /\ X_train = <<>>
    /\ X_test = <<>>
    /\ np_random \in EntropySeeds
    /\ figures = <<>>
    /\ executed = <<>>

Prices(n, second) == [i \in 1..n |-> IF i = 2 THEN second ELSE i]

PlainRoom(n) == [i \in 1..n |-> 0]

\* Input files of every shape the loader and the encoder distinguish: the
\* loader's cases on a plain room_type column, and every room_type column on
\* files the loader accepts.
InitFiles ==
    /\ pc = "read"
    /\ \E n \in 2..MaxEncRows :
          \/ \E layout \in {"last", "inner", "absent"} :
             \E second \in {0 - 1, 0, 2} :
             \E m \in {n - 1, n, n + 1} :
             \E withPark \in BOOLEAN :
                /\ listings_csv = ListingsFile(n, layout, "object", PlainRoom(n), {}, "float64",
                                               Prices(n, second))
                /\ feature_csv = FeatureFile(m, withPark)
          \/ \E roomDtype \in {"object", "float64"} :
             \E roomVals \in [1..n -> 0..(MaxLevels - 1)] :
             \E roomNa \in SUBSET {1, n} :
             \E bedsDtype \in {"int64", "float64"} :
                /\ listings_csv = ListingsFile(n, "last", roomDtype, roomVals, roomNa, bedsDtype,
                                               Prices(n, 2))
                /\ feature_csv = FeatureFile(n, TRUE)
    /\ lasso_hard = {}
    /\ shuffle42 = <<>>
    /\ previous_run = <<>>
    /\ FreshKernel

LoadEncode == ReadData \/ OneHot

SpecLoadEncode == InitFiles /\ [][LoadEncode]_vars

\* The input files of the whole-notebook runs: room_type is plain, or its
\* first row holds a value of its own or is missing; the second price is
\* positive or zero; LassoCV converges on every fold or misses tol on one.
Init ==
    /\ pc = "read"
    /\ \E n \in (n_splits - 1)..MaxRows :
       \E own \in 0..1 :
       \E roomNa \in SUBSET {1} :
       \E second \in {0, 2} :
       \E hard \in SUBSET {2} :
          /\ (roomNa # {} \/ hard # {}) => own = 0
          /\ hard # {} => roomNa = {}
          /\ listings_csv = ListingsFile(n, "last", "object",
                                         [i \in 1..n |-> IF i = 1 THEN own ELSE 0],
                                         roomNa, "float64", Prices(n, second))
          /\ feature_csv = FeatureFile(n, TRUE)
          /\ lasso_hard = hard
    /\ shuffle42 = <<>>
    /\ previous_run = <<>>
    /\ FreshKernel

Next == ReadData \/ OneHot \/ Baseline \/ HoldOutSplit \/ Ensemble \/ Report

Spec == Init /\ [][Next]_vars

\* The whole notebook on clean files only: every cell is valid, no price is
\* zero, every LassoCV fit converges, and there are rows enough for the
\* internal 5-fold search of RidgeCV and LassoCV inside each outer fold
\* (n_splits + 2 rows leave n_splits of them to the smallest outer train block).
InitClean ==
    /\ pc = "read"
    /\ \E n \in (n_splits + 2)..MaxRows :
       \E own \in 0..1 :
          /\ listings_csv = ListingsFile(n, "last", "object",
                                         [i \in 1..n |-> IF i = 1 THEN own ELSE 0],
                                         {}, "float64", Prices(n, 2))
          /\ feature_csv = FeatureFile(n, TRUE)
    /\ lasso_hard = {}
    /\ shuffle42 = <<>>
    /\ previous_run = <<>>
    /\ FreshKernel

SpecClean == InitClean /\ [][Next]_vars

\* The baseline stage alone, entered with the frames the first two cells
\* leave for a file of up to MaxFoldRows rows.
InitBaseline ==
    /\ pc = "ols"
    /\ \E n \in (n_splits - 1)..MaxFoldRows :
       \E own \in 0..1 :
       \E hard \in SUBSET {2} :
          /\ listings_csv = ListingsFile(n, "last", "object",
                                         [i \in 1..n |-> IF i = 1 THEN own ELSE 0],
                                         {}, "float64", Prices(n, 2))
          /\ feature_csv = FeatureFile(n, TRUE)
          /\ lasso_hard = hard
    /\ X = LoaderX(listings_csv, feature_csv)
    /\ y = LoaderY(listings_csv)
    /\ X_encoded = GetDummies(X, categorical_names(X))
    /\ fold = 0
    /\ estimator = [o \in Objects |-> Unfitted("none")]
    /\ R2 = <<>>
    /\ MAE = <<>>
    /\ Y_predict = NoPrediction
    /\ scalars = [v \in ScalarNames |-> Unset]
    /\ warnings = {}
    /\ raised = [cell |-> "", exc |-> ""]
    /\ X_train = <<>>
    /\ X_test = <<>>
    /\ np_random \in EntropySeeds
    /\ figures = <<>>
    /\ shuffle42 = <<>>
    /\ previous_run = <<>>
    /\ executed = <<"read", "encode">>

SpecBaseline == InitBaseline /\ [][Baseline]_vars

\* Kernel > Restart & Run All after a completed run: every name is unbound
\* again and the generator is seeded anew; the files are the same, and so is
\* what the fixed seed 42 yields.
RestartRunAll ==
    /\ pc = "done"
    /\ previous_run = <<>>
    /\ previous_run' = scalars
    /\ pc' = "read"
    /\ X' = <<>>
    /\ y' = <<>>
    /\ X_encoded' = <<>>
    /\ fold' = 0
    /\ estimator' = [o \in Objects |-> Unfitted("none")]
    /\ R2' = <<>>
    /\ MAE' = <<>>
    /\ Y_predict' = NoPrediction
    /\ scalars' = [v \in ScalarNames |-> Unset]
    /\ warnings' = {}
    /\ raised' = [cell |-> "", exc |-> ""]
    /\ X_train' = <<>>
    /\ X_test' = <<>>
    /\ np_random' \in EntropySeeds
    /\ figures' = <<>>
    /\ executed' = <<>>
    /\ UNCHANGED <<inputs, shuffle42>>

NextTwice == Next \/ RestartRunAll

SpecTwice == Init /\ [][NextTwice]_vars

---------------------------------------------------------------------------
(* Properties *)

InLoop == pc \in {m \o "_loop" : m \in Models}

LoopModel == CHOOSE m \in Models : pc = m \o "_loop"

FoldTests(n) == [i \in 1..n_splits |-> Range(KFoldTest(n, n_splits, i))]

\* C1: for every row count n >= 5 the five test blocks of the unshuffled
\* KFold split are pairwise disjoint and cover rows 1..n, each train block is
\* the complement of its test block, and these are the blocks the running
\* loop (OLS, ridge, lasso) has just fit and scored on.
C1_KFoldPartition ==
    LET n == NRows(X_encoded)
    IN (InLoop /\ n >= n_splits) =>
          /\ \A i, j \in 1..n_splits :
                i # j => FoldTests(n)[i] \cap FoldTests(n)[j] = {}
          /\ UNION {FoldTests(n)[i] : i \in 1..n_splits} = 1..n
          /\ \A i \in 1..n_splits :
                Range(KFoldTrain(n, n_splits, i)) = (1..n) \ FoldTests(n)[i]
          /\ fold >= 1 =>
                /\ Range(Y_predict.rows) = FoldTests(n)[fold]
                /\ Range(estimator[ObjectOf(LoopModel)].rows) = (1..n) \ FoldTests(n)[fold]

\* C1 witness: the lasso loop has consumed all five folds of a row count
\* that 5 does not divide (folds of unequal size)
C1_Witness ==
    /\ pc = "lasso_loop"
    /\ fold = n_splits
    /\ NRows(X_encoded) % n_splits # 0

\* the fold-level values cell m records, computed fold by fold
FoldScores(m) ==
    LET n == NRows(X_encoded)
    IN [i \in 1..n_splits |->
          Eager(FitBaseline(m, X_encoded, y, KFoldTrain(n, n_splits, i), i \in lasso_hard),
                LAMBDA est : RSquared(X_encoded, y, est, KFoldTest(n, n_splits, i)))]

FoldErrors(m) ==
    LET n == NRows(X_encoded)
    IN [i \in 1..n_splits |->
          Eager(FitBaseline(m, X_encoded, y, KFoldTrain(n, n_splits, i), i \in lasso_hard),
                LAMBDA est : median_absolute_error(X_encoded, y, KFoldTest(n, n_splits, i),
                                 Predict(est, KFoldTest(n, n_splits, i))))]

\* C10: each baseline cell runs five iterations, one per fold, each adding
\* one value to R2 and one to MAE; the two values it reports are the sums of
\* exactly its own five fold-level values divided by 5.
C10_FiveFoldMeans ==
    /\ InLoop => (Len(R2) = fold /\ Len(MAE) = fold /\ fold <= n_splits)
    /\ pc \in {"ridge", "lasso", "split"} => (Len(R2) = n_splits /\ Len(MAE) = n_splits)
    /\ \A m \in Models :
          scalars[ScoreVar(m)].set =>
             /\ scalars[ScoreVar(m)] = [set |-> TRUE, num |-> SumSeq(FoldScores(m)), den |-> n_splits]
             /\ scalars[ErrorVar(m)] = [set |-> TRUE, num |-> SumSeq(FoldErrors(m)), den |-> n_splits]

\* C10 witness: all three baseline cells have stored their means
C10_Witness ==
    /\ pc = "split"
    /\ \A m \in Models : scalars[ScoreVar(m)].set /\ scalars[ErrorVar(m)].set

---------------------------------------------------------------------------
(* The encoder *)

Encoded == "encode" \in Range(executed)

\* the plain (non-indicator) columns and the indicator group of a column name
PlainNames(df) == {df[i].name : i \in {j \in DOMAIN df : ~df[j].ind}}

Group(df, nm) == SelectSeq(df, LAMBDA c : c.ind /\ c.name = nm)

RowSum(group, i) == SumSeq([j \in DOMAIN group |-> group[j].vals[i]])

\* the distinct values a column holds in the rows where it holds one
Observed(c) == {c.vals[i] : i \in {r \in DOMAIN c.vals : r \notin c.na}}

\* C2 as stated: when every column of X holds numbers, stored as float64 or
\* as int64, the encoder is the identity: X_encoded has exactly the columns
\* of X.
C2_NumericIdentity ==
    (Encoded /\ \A i \in DOMAIN X : X[i].dtype \in {"float64", "int64"})
        => X_encoded = X

\* C2 amended: when every column of X is stored as float64 the encoder is the
\* identity (X_encoded = X); a column stored as int64 is encoded like any
\* categorical column: it is removed and replaced by its indicator group.
C2_FloatIdentity ==
    Encoded =>
       /\ (\A i \in DOMAIN X : X[i].dtype = "float64") => X_encoded = X
       /\ \A i \in DOMAIN X :
             X[i].dtype = "int64" =>
                /\ X[i].name \notin PlainNames(X_encoded)
                /\ Len(Group(X_encoded, X[i].name)) = Cardinality(Observed(X[i]))

\* C2 witness: a matrix of float64 columns only has been encoded
C2_Witness ==
    /\ Encoded
    /\ Len(X) >= 4
    /\ \A i \in DOMAIN X : X[i].dtype = "float64"

\* C3 as stated: a categorical column with n >= 1 distinct observed values is
\* removed and replaced by exactly n indicator columns whose values sum to 1
\* in every row, also in a row where the column's value is missing.
C3_RowSumOneEverywhere ==
    Encoded =>
       \A i \in DOMAIN X :
          (X[i].dtype # "float64" /\ Observed(X[i]) # {}) =>
             /\ X[i].name \notin PlainNames(X_encoded)
             /\ Len(Group(X_encoded, X[i].name)) = Cardinality(Observed(X[i]))
             /\ \A r \in 1..NRows(X) : RowSum(Group(X_encoded, X[i].name), r) = 1

\* C3 amended: a categorical column with n >= 1 distinct observed values is
\* removed and replaced by exactly n indicator columns; their values sum to 1
\* in every row where the column holds a value and to 0 in every row where
\* its value is missing.
C3_RowSumOneWhereObserved ==
    Encoded =>
       \A i \in DOMAIN X :
          (X[i].dtype # "float64" /\ Observed(X[i]) # {}) =>
             /\ X[i].name \notin PlainNames(X_encoded)
             /\ Len(Group(X_encoded, X[i].name)) = Cardinality(Observed(X[i]))
             /\ \A r \in 1..NRows(X) :
                   RowSum(Group(X_encoded, X[i].name), r) = IF r \in X[i].na THEN 0 ELSE 1

\* C3 witness: an encoded categorical column with a single observed value
\* and a missing cell, and one with MaxLevels values
C3_Witness ==
    /\ Encoded
    /\ \E i \in DOMAIN X :
          /\ X[i].dtype = "object" /\ X[i].na # {} /\ Cardinality(Observed(X[i])) = MaxLevels
    /\ \E i \in DOMAIN X :
          /\ X[i].dtype = "int64" /\ Cardinality(Observed(X[i])) >= 2

---------------------------------------------------------------------------
(* The loader *)

Loaded == "read" \in Range(executed)

LoaderFailed == pc = "aborted" /\ raised.cell = "read" /\ y = <<>> /\ X_encoded = <<>>

PriceMissing == ~HasCol(ReadListings(listings_csv), "price")

PriceNonPositive ==
    /\ ~PriceMissing
    /\ \E i \in 1..NRows(listings_csv) :
          ColumnOf(ReadListings(listings_csv), "price").vals[i] <= 0

RowCountsDiffer ==
    NRows(DropCol(ReadFeatures(feature_csv), "id")) # NRows(DropCol(ReadListings(listings_csv), "id"))

\* C5 as stated: the loader fails (the run is aborted, no X and y are handed
\* on) whenever the price column is missing, a price is non-positive, or the
\* two tables differ in their row counts.
C5_LoaderFailsOnBadInput ==
    (Loaded /\ (PriceMissing \/ PriceNonPositive \/ RowCountsDiffer)) => LoaderFailed

\* C5 amended: the loader fails, with KeyError and without a target vector,
\* exactly when a column it names (price, on_park) is missing.  A non-positive
\* price or a features table of another row count does not make it fail: y
\* holds -inf (price 0) or NaN (price below 0) in such a row, and X holds
\* exactly the rows of listings, the feature columns aligned to them, missing
\* where the features table has no such row.
C5_LoaderFailsOnMissingColumn ==
    LET listings == ReadListings(listings_csv)
        features == ReadFeatures(feature_csv)
        n == NRows(listings_csv)
        m == NRows(feature_csv)
        named == HasCol(listings, "price") /\ HasCol(features, "on_park")
    IN Loaded =>
          /\ ~named => (LoaderFailed /\ raised.exc = "KeyError")
          /\ named =>
                /\ raised.cell # "read"
                /\ pc # "aborted"
                /\ Len(y) = n
                /\ \A i \in 1..n :
                      LET p == ColumnOf(listings, "price").vals[i]
                      IN y[i] = IF p > 0 THEN [k |-> "ln", of |-> p]
                                ELSE IF p = 0 THEN [k |-> "neginf", of |-> 0]
                                ELSE [k |-> "nan", of |-> 0]
                /\ \A c \in DOMAIN X : Len(X[c].vals) = n
                /\ \A c \in DOMAIN X :
                      X[c].name \in {"on_park", "dist_to_subway"} =>
                         X[c].na = {i \in 1..n : i > m}

\* C5 witness: the loader has handed on X and y for a file with a price of
\* zero or below and a features table one row short
C5_Witness ==
    /\ Loaded
    /\ pc # "aborted"
    /\ PriceNonPositive
    /\ NRows(feature_csv) < NRows(listings_csv)
    /\ \E i \in DOMAIN y : y[i].k # "ln"

---------------------------------------------------------------------------
(* The hold-out split and the ensembles *)

SplitDone == "split" \in Range(executed)

\* C8: the split cell runs once and cuts the rows of X_encoded into X_test
\* and X_train with no row in both and every row in one; X_test holds the
\* 0.33 fraction of the rows (the least whole number of rows that is at least
\* 0.33 n) and X_train the rest; every ensemble is fit on this X_train and
\* every ensemble cell predicts and scores on this X_test.
C8_HoldOutPartition ==
    LET n == NRows(X_encoded)
    IN /\ Cardinality({i \in DOMAIN executed : executed[i] = "split"}) <= 1
       /\ ~SplitDone => (X_train = <<>> /\ X_test = <<>>)
       /\ SplitDone =>
             /\ Range(X_train) \cap Range(X_test) = {}
             /\ Range(X_train) \cup Range(X_test) = 1..n
             /\ Len(X_train) + Len(X_test) = n
             /\ 100 * Len(X_test) >= test_pct * n
             /\ 100 * (Len(X_test) - 1) < test_pct * n
             /\ \A o \in Ensembles :
                   estimator[o].fitted => estimator[o].rows = X_train
             /\ \A o \in Ensembles :
                   (Y_predict.est.fitted /\ Y_predict.est = estimator[o])
                       => Y_predict.rows = X_test

\* C8 witness: all four ensembles have been fit and scored after the split
C8_Witness ==
    /\ pc = "r2_chart"
    /\ \A o \in Ensembles : estimator[o].fitted /\ scalars[EnsScoreVar(o)].set
    /\ Y_predict.est = estimator["clf"]
    /\ Len(X_test) >= 2

\* the (column, test row) pairs whose category value no training row holds
TestOnly ==
    {cr \in (DOMAIN X) \X Range(X_test) :
        /\ X[cr[1]].dtype # "float64"
        /\ cr[2] \notin X[cr[1]].na
        /\ \A t \in Range(X_train) \ X[cr[1]].na : X[cr[1]].vals[t] # X[cr[1]].vals[cr[2]]}

\* C4 as stated: when a category value occurs in test rows only, scoring
\* raises no error and in every such row all indicator columns of the
\* column's group are 0.
C4_TestOnlyAllZero ==
    SplitDone =>
       \A cr \in TestOnly :
          /\ raised.exc = ""
          /\ \A g \in Range(Group(X_encoded, X[cr[1]].name)) : g.vals[cr[2]] = 0

\* C4 amended: when a category value occurs in test rows only, scoring raises
\* no error; the encoding was made on the full matrix before the split, so the
\* group has an indicator column for that value, which is 1 in such a row (the
\* group's other columns are 0 there) and 0 in every training row.
C4_TestOnlyOwnIndicator ==
    SplitDone =>
       \A cr \in TestOnly :
          LET c == X[cr[1]]
              group == Range(Group(X_encoded, c.name))
          IN /\ raised.exc = ""
             /\ pc # "aborted"
             /\ \E g \in group : g.level = c.vals[cr[2]]
             /\ \A g \in group :
                   /\ g.vals[cr[2]] = IF g.level = c.vals[cr[2]] THEN 1 ELSE 0
                   /\ g.level = c.vals[cr[2]] => \A t \in Range(X_train) : g.vals[t] = 0

\* C4 witness: the run has ended with all ensembles scored on a test subset
\* that holds a category value no training row holds
C4_Witness ==
    /\ pc = "done"
    /\ TestOnly # {}
    /\ \A o \in Ensembles : scalars[EnsScoreVar(o)].set

---------------------------------------------------------------------------
(* Non-convergence of the lasso *)

LassoWarned == "ConvergenceWarning" \in warnings

\* the bars of the two metric charts that carry the given label
BarsOf(f, label) == {r \in DOMAIN figures[f].bars : figures[f].bars[r].label = label}

\* the fold-level values of OLS and ridge in a run where no fit stops short
ConvergedScores(m) ==
    LET n == NRows(X_encoded)
    IN [i \in 1..n_splits |->
          Eager(FitBaseline(m, X_encoded, y, KFoldTrain(n, n_splits, i), FALSE),
                LAMBDA est : RSquared(X_encoded, y, est, KFoldTest(n, n_splits, i)))]

ConvergedErrors(m) ==
    LET n == NRows(X_encoded)
    IN [i \in 1..n_splits |->
          Eager(FitBaseline(m, X_encoded, y, KFoldTrain(n, n_splits, i), FALSE),
                LAMBDA est : median_absolute_error(X_encoded, y, KFoldTest(n, n_splits, i),
                                 Predict(est, KFoldTest(n, n_splits, i))))]

\* the fit of ensemble o as a function of the data, the partition and the
\* generator state s the first ensemble cell found
EnsembleFit(o, s) ==
    LET s2 == s + 1
        s3 == s2 + GridPoints(rf_grid) * grid_cv + 1
        s4 == s3 + 1
    IN CASE o = "rf" -> FitEnsemble("rf", X_train, 0, s)
         [] o = "rf_tuned" -> GridSearchFit(X_encoded, y, "rf", rf_grid, X_train, s2)
         [] o = "ada" -> FitEnsemble("ada", X_train, 1, s3)
         [] OTHER -> GridSearchFit(X_encoded, y, "ada", ada_grid, X_train, s4)

\* The metrics of the six models other than lasso are what the data, the
\* partition and the ensembles' own random draws make them: OLS and ridge
\* leave their cells with the means of a run where no fit stops short, each
\* ensemble leaves its cell as the fit EnsembleFit gives, with the two
\* metrics of that fit on X_test.
OthersUnaffected ==
    /\ \A m \in {"ols", "ridge"} :
          pc = CellAfter(m) =>
             /\ scalars[ScoreVar(m)] = NpMean(ConvergedScores(m))
             /\ scalars[ErrorVar(m)] = NpMean(ConvergedErrors(m))
    /\ \A o \in Ensembles :
          (LassoWarned /\ pc = EnsCellAfter(o)) =>
             /\ estimator["rf"].rnd \in EntropySeeds
             /\ \E est \in {EnsembleFit(o, estimator["rf"].rnd)} :
                   /\ estimator[o] = est
                   /\ scalars[EnsScoreVar(o)] = Single(RSquared(X_encoded, y, est, X_test))
                   /\ scalars[EnsErrorVar(o)] =
                         Single(median_absolute_error(X_encoded, y, X_test, Predict(est, X_test)))

\* a metric, once stored, is not assigned again in the run
MetricsKept == \A v \in ScalarNames : scalars[v].set => scalars'[v] = scalars[v]

LassoLeftOut ==
    LassoWarned =>
       /\ raised.exc = ""
       /\ \A f \in (DOMAIN figures) \cap {1, 2} : BarsOf(f, "Lasso Tuned") = {}

LassoPlotted ==
    LassoWarned =>
       /\ raised.exc = ""
       /\ pc # "aborted"
       /\ pc = CellAfter("lasso") =>
             /\ scalars["lasso_testing_set_score"] = NpMean(FoldScores("lasso"))
             /\ scalars["lasso_median_abs_error"] = NpMean(FoldErrors("lasso"))
       /\ \A f \in (DOMAIN figures) \cap {1, 2} :
             /\ Cardinality(BarsOf(f, "Lasso Tuned")) = 1
             /\ \A r \in BarsOf(f, "Lasso Tuned") :
                   figures[f].bars[r].value =
                      scalars[IF f = 1 THEN "lasso_testing_set_score"
                              ELSE "lasso_median_abs_error"]

\* C6 as stated: when the lasso does not converge in some fold the run goes
\* on, the comparison charts leave the lasso out, and the metrics of the other
\* six models are those of a run where the lasso converged.
C6_LassoSkipped == LassoLeftOut /\ OthersUnaffected

\* C6 amended: when the lasso does not converge in some fold the run goes on
\* (a warning, no error); the lasso is not skipped: its two means are taken
\* over all five folds and plotted in both charts like any other model; the
\* metrics of the other six models are those of a run where the lasso
\* converged, and no metric changes once it is stored.
C6_LassoWarnedAndPlotted ==
    /\ [](LassoPlotted /\ OthersUnaffected)
    /\ [][MetricsKept]_vars

\* C6 witness: the run has ended, all charts drawn, after a lasso fit that
\* stopped short of its tolerance
C6_Witness ==
    /\ pc = "done"
    /\ LassoWarned
    /\ estimator["lasso"].fitted
    /\ Len(figures) = 3

---------------------------------------------------------------------------
(* Order of the cells, and what the charts show *)

CellOrder == <<"read", "encode", "ols", "ridge", "lasso", "split", "rf", "rf_tuned",
               "ada", "clf", "r2_chart", "mae_chart", "importance">>

Evaluators == {"ols", "ridge", "lasso", "rf", "rf_tuned", "ada", "clf"}

ReportCells == {"r2_chart", "mae_chart", "importance"}

\* chart f (1: R^2, 2: median absolute error) shows every model once, under
\* its own label, with the value stored for it
ChartShows(f, names) ==
    /\ Len(figures[f].bars) = Len(labels)
    /\ \A k \in DOMAIN labels :
          /\ Cardinality(BarsOf(f, labels[k])) = 1
          /\ \A r \in BarsOf(f, labels[k]) : figures[f].bars[r].value = scalars[names[k]]
    /\ \A r \in 1..(Len(labels) - 1) :
          ~FracLess(figures[f].bars[r + 1].value, figures[f].bars[r].value)

\* the importance chart has one bar per column of X_encoded, ascending, the
\* largest at 100
ImportanceShows(f) ==
    /\ {figures[f].bars[r].label : r \in DOMAIN figures[f].bars}
          = {<<X_encoded[c].name, X_encoded[c].level>> : c \in DOMAIN X_encoded}
    /\ Len(figures[f].bars) = Len(X_encoded)
    /\ \A r \in 1..(Len(X_encoded) - 1) :
          ~FracLess(figures[f].bars[r + 1].value, figures[f].bars[r].value)
    /\ figures[f].bars[Len(X_encoded)].value.num = 100 * figures[f].bars[Len(X_encoded)].value.den

\* C9: the cells run in the fixed order loader, encoder, OLS, ridge, lasso,
\* split, random forest, tuned random forest, AdaBoost(RF), tuned AdaBoost,
\* R^2 chart, error chart, importance chart, each at most once; no reporting
\* cell has started unless all seven evaluators have run and stored their two
\* metrics; each chart shows, per model, the value that model's cell stored;
\* a stored metric is not changed afterwards.
C9_OrderedSinglePass ==
    /\ [](/\ Len(executed) <= Len(CellOrder)
          /\ \A i \in DOMAIN executed : executed[i] = CellOrder[i]
          /\ (Range(executed) \cap ReportCells # {} \/ figures # <<>>) =>
                /\ Evaluators \subseteq Range(executed)
                /\ \A v \in ScalarNames : scalars[v].set
                /\ \A o \in Ensembles :
                      scalars[EnsScoreVar(o)] =
                         Single(RSquared(X_encoded, y, estimator[o], X_test))
          /\ Len(figures) <= 3
          /\ Len(figures) >= 1 => ChartShows(1, R2Vars)
          /\ Len(figures) >= 2 => ChartShows(2, ErrVars)
          /\ Len(figures) >= 3 => ImportanceShows(3))
    /\ [][MetricsKept /\ (executed' = executed \/ \E c \in Range(CellOrder) :
                                                   executed' = Append(executed, c))]_vars

\* C9 witness: the run has ended with its three charts, the first of which
\* shows the models in another order than the order of their cells
C9_Witness ==
    /\ pc = "done"
    /\ executed = CellOrder
    /\ Len(figures) = 3
    /\ \E r \in DOMAIN labels : figures[1].bars[r].label # labels[r]

---------------------------------------------------------------------------
(* Running the notebook twice *)

\* C7: a second run of the notebook on the same files ends with the same
\* fourteen metrics as the first, those of the four ensembles included.
C7_SameMetricsTwice ==
    (pc = "done" /\ previous_run # <<>>) => scalars = previous_run

---------------------------------------------------------------------------
(* The target and the feature matrix *)

AllNames(df) == {df[i].name : i \in DOMAIN df}

\* C11: for every listings file that has a price column, wherever it stands
\* among the columns, X and X_encoded hold no price column, and y is the
\* logarithm of that price column, row by row.
C11_PriceNotInX ==
    (Loaded /\ ~PriceMissing /\ raised.cell # "read") =>
       /\ "price" \notin AllNames(X)
       /\ "price" \notin AllNames(X_encoded)
       /\ y = [i \in 1..NRows(listings_csv) |->
                 NpLog(ColumnOf(ReadListings(listings_csv), "price").vals[i])]

---------------------------------------------------------------------------
(* The two grid searches *)

Tuned == {"rf_tuned", "clf"}

GridOf(o) == IF o = "rf_tuned" THEN rf_grid ELSE ada_grid

BaseKind(o) == IF o = "rf_tuned" THEN "rf" ELSE "ada"

\* the generator state the search of o starts from, s being the state the
\* first ensemble cell found
SearchSeed(o, s) ==
    IF o = "rf_tuned" THEN s + 1 ELSE s + 1 + GridPoints(rf_grid) * grid_cv + 1 + 1

\* the three internal (train, test) pairs of the search cut X_train into
\* three test blocks, each train block the rest of X_train
InternalFoldsCoverTrain ==
    LET sp == InternalSplits(X_train, grid_cv)
    IN /\ Len(sp) = 3
       /\ \A f \in 1..3 :
             /\ Range(sp[f].train) \cap Range(sp[f].test) = {}
             /\ Range(sp[f].train) \cup Range(sp[f].test) = Range(X_train)
       /\ \A f, h \in 1..3 : f # h => Range(sp[f].test) \cap Range(sp[h].test) = {}

\* what the search of o has left when its cell is done
SearchDone(o) ==
    LET G == GridPoints(GridOf(o))
        s == SearchSeed(o, estimator["rf"].rnd)
        means == estimator[o].search
        best == estimator[o].params
    IN /\ G = IF o = "rf_tuned" THEN 9 ELSE 24
       /\ Len(means) = G
       /\ \A g \in 1..G : means[g].den = Len(X_train)
       /\ best \in 1..G
       /\ \A g \in 1..G : ~FracLess(means[best], means[g])
       /\ estimator[o].rows = X_train
       /\ estimator[o].rnd = s + G * 3
       /\ scalars[EnsScoreVar(o)] = Single(RSquared(X_encoded, y, estimator[o], X_test))
       /\ scalars[EnsErrorVar(o)] =
             Single(median_absolute_error(X_encoded, y, X_test, Predict(estimator[o], X_test)))
       /\ Cardinality({i \in DOMAIN executed : executed[i] = o}) = 1

\* every mean the search recorded is that of its grid point over the three
\* internal folds, fit at that point's own places in the order of fits
EveryPointScored(o) ==
    \E sp \in {InternalSplits(X_train, grid_cv)} :
       \A g \in 1..GridPoints(GridOf(o)) :
          estimator[o].search[g] =
             GridPointScore(X_encoded, y, BaseKind(o), sp, g,
                            SearchSeed(o, estimator["rf"].rnd))

\* C12: each grid search scores every point of its grid (9 for the random
\* forest, 24 for AdaBoost) on 3 internal folds of X_train before choosing;
\* the chosen point's mean internal score is not below any other point's; it
\* is refit on all of X_train after the 3 x 9 (3 x 24) internal fits, and the
\* refit estimator is scored on X_test once; the stored metrics stay.
C12_GridSearch ==
    /\ [](\A o \in Tuned :
            /\ ~estimator[o].fitted => ~scalars[EnsScoreVar(o)].set
            /\ estimator[o].fitted => (InternalFoldsCoverTrain /\ SearchDone(o))
            /\ pc = EnsCellAfter(o) => EveryPointScored(o))
    /\ [][MetricsKept /\ \A o \in Tuned : estimator[o].fitted => estimator'[o] = estimator[o]]_vars

\* C12 witness: both searches are done, and the random-forest search has
\* chosen a point other than the first over a point with a lower mean
C12_Witness ==
    /\ pc = "done"
    /\ \A o \in Tuned : estimator[o].fitted
    /\ estimator["rf_tuned"].params > 1
    /\ \E g \in 1..GridPoints(rf_grid) :
          FracLess(estimator["rf_tuned"].search[g],
                   estimator["rf_tuned"].search[estimator["rf_tuned"].params])

---------------------------------------------------------------------------
(* Rows fit on and rows scored on *)

\* the rows of the internal (train, test) pairs an estimator cuts its
\* training rows into: 5 pairs for RidgeCV and LassoCV, 3 for a grid search
SplitRows(rows, k) ==
    LET sp == InternalSplits(rows, k)
    IN UNION {Range(sp[f].train) \cup Range(sp[f].test) : f \in 1..k}

\* every row passed to a fit that made the estimator what it is: the rows
\* of its final fit and those of its internal search
FitRows(est) ==
    Range(est.rows)
      \cup (IF est.kind \in {"ridge", "lasso"} THEN SplitRows(est.rows, n_splits) ELSE {})
      \cup (IF est.search # <<>> THEN SplitRows(est.rows, grid_cv) ELSE {})

\* C13: whenever an estimator has been scored - OLS, ridge and lasso on the
\* test rows of the current fold, each ensemble on X_test - no row it was
\* scored on is among the rows of any fit behind it: its final fit, the
\* internal folds of RidgeCV / LassoCV and of the grid searches, and, for
\* AdaBoost, the fit of the rf object it was built from.
C13_NoScoredRowInFit ==
    /\ \A m \in Models :
          (pc = m \o "_loop" /\ fold >= 1) =>
             LET est == estimator[ObjectOf(m)]
             IN /\ est.fitted
                /\ Y_predict = Predict(est, KFoldTest(NRows(X_encoded), n_splits, fold))
                /\ R2[fold] = RSquared(X_encoded, y, est, Y_predict.rows)
                /\ MAE[fold] = median_absolute_error(X_encoded, y, Y_predict.rows, Y_predict)
                /\ Y_predict.rows # <<>>
                /\ FitRows(est) \cap Range(Y_predict.rows) = {}
    /\ \A o \in Ensembles :
          scalars[EnsScoreVar(o)].set =>
             LET est == estimator[o]
             IN /\ est.fitted
                /\ scalars[EnsScoreVar(o)] = Single(RSquared(X_encoded, y, est, X_test))
                /\ scalars[EnsErrorVar(o)] =
                      Single(median_absolute_error(X_encoded, y, X_test, Predict(est, X_test)))
                /\ X_test # <<>>
                /\ FitRows(est) \cap Range(X_test) = {}
                /\ o = "ada" => (estimator["rf"].fitted
                                  /\ FitRows(estimator["rf"]) \cap Range(X_test) = {})

\* C13 witness: the run has ended; all seven estimators have been fit and
\* scored, the last lasso fit on the rows outside the fifth fold
C13_Witness ==
    /\ pc = "done"
    /\ \A o \in Objects : estimator[o].fitted
    /\ \A v \in ScalarNames : scalars[v].set
    /\ estimator["lasso"].rows = KFoldTrain(NRows(X_encoded), n_splits, n_splits)
    /\ estimator["clf"].search # <<>>
    /\ Y_predict = Predict(estimator["clf"], X_test)

=============================================================================
